---- MODULE Spec2Model ----
(***************************************************************************)
(* State-machine model of BrainViewer (src/Code.py): the three-plane NIfTI *)
(* viewer whose sliders, text entries, crosshairs and mouse handlers share *)
(* one cursor (sagittal = x, coronal = y, axial = z).                      *)
(*                                                                         *)
(* Encoding conventions                                                    *)
(*  - None is Python's None for string-valued fields; NoData (the empty    *)
(*    tuple) is None for tuple-valued fields (self.data, plot artists).    *)
(*  - self.data is represented by its shape <<Nx, Ny, Nz>> (data) and by   *)
(*    its smallest and largest intensity <<np.min, np.max>> (data_range).  *)
(*  - A display range (vmin, vmax) is counted in hundredths: brightness    *)
(*    and contrast levels are integers, so 100 * vmin and 100 * vmax are   *)
(*    integers; floating point rounding is not modelled.                   *)
(*  - Floating point event coordinates (event.xdata, event.ydata, the      *)
(*    value a ttk.Scale hands to its command) are counted in half units:   *)
(*    the integer h stands for the float h/2, so 2*p is the pixel p and    *)
(*    2*p+1 is p + 0.5.                                                    *)
(*  - Text (tk.StringVar contents) is a sequence of one-character strings. *)
(*  - slice_controls[p] is what IntVar.get() returns for plane p.          *)
(*  - A handler is an operator from the object's state (the record `self`  *)
(*    of all fields) and the event's arguments to the state it leaves; the *)
(*    action of the handler assigns that state to the variables.           *)
(***************************************************************************)
EXTENDS Integers, Sequences, FiniteSets, TLC

VARIABLES data, data_range, filename, slice_controls, slice_entries,
          scale_to, brightness_var, contrast_var, mouse_pressed,
          mouse_over_axes, image_plots, clim, crosshair_lines, temp_lines

vars == <<data, data_range, filename, slice_controls, slice_entries,
          scale_to, brightness_var, contrast_var, mouse_pressed,
          mouse_over_axes, image_plots, clim, crosshair_lines, temp_lines>>

(***************************************************************************)
(* Bounds of the model                                                     *)
(***************************************************************************)
\* largest extent of a volume along one axis
MaxDim == 3

\* largest number of voxels of a volume
MaxVoxels == 6

None == "None"
NoData == <<>>

Views == {"axial", "sagittal", "coronal"}
Planes == {"axial", "sagittal", "coronal"}

\* shapes of the volumes a file can hold
Shapes ==
    {d \in (1..MaxDim) \X (1..MaxDim) \X (1..MaxDim) :
        d[1] * d[2] * d[3] <= MaxVoxels}

\* event.xdata / event.ydata of a press or a drag, in half units: the
\* pixels -1 .. MaxDim (before, inside and past every extent) and one
\* position between two pixels
EventCoords == {2 * p : p \in (-1)..MaxDim} \cup {1}

\* event.xdata = event.ydata of a hover (button up) motion, in half units
HoverCoords == {0}

\* values a ttk.Scale can hand to on_slider_change, in half units
SliderCoords == {2 * p : p \in 0..MaxDim} \cup {1}

\* positions the brightness scale is moved to
BrightnessLevels == {0}

\* positions the contrast scale is moved to
ContrastLevels == {0}

FileNames == {"volume.nii"}

\* <<np.min(data), np.max(data)>> of the volumes a file can hold
Intensities == {<<0, 200>>}

\* initial upper end of every slice scale (to=100)
ScaleInitTo == 100

(***************************************************************************)
(* Python / numpy primitives                                               *)
(***************************************************************************)
Digits == <<"0", "1", "2", "3", "4", "5", "6", "7", "8", "9">>

IsDigit(c) == \E i \in 1..10 : Digits[i] = c

DigitVal(c) == (CHOOSE i \in 1..10 : Digits[i] = c) - 1

RECURSIVE NatToStr(_)
NatToStr(n) ==
    IF n < 10 THEN <<Digits[n + 1]>>
    ELSE NatToStr(n \div 10) \o <<Digits[(n % 10) + 1]>>

\* str(n) for an int n: its decimal form
str(n) == IF n < 0 THEN <<"-">> \o NatToStr(-n) ELSE NatToStr(n)

RECURSIVE Strip(_)
Strip(s) ==
    IF s = <<>> THEN s
    ELSE IF Head(s) = " " THEN Strip(Tail(s))
    ELSE IF s[Len(s)] = " " THEN Strip(SubSeq(s, 1, Len(s) - 1))
    ELSE s

RECURSIVE DigitsToNat(_)
DigitsToNat(s) ==
    IF s = <<>> THEN 0
    ELSE DigitsToNat(SubSeq(s, 1, Len(s) - 1)) * 10 + DigitVal(s[Len(s)])

\* int(text): surrounding blanks are dropped, one sign is allowed, the rest
\* must be a non-empty run of digits; anything else raises ValueError
\* (ok = FALSE).
int(s) ==
    LET t == Strip(s)
        signed == t # <<>> /\ Head(t) \in {"-", "+"}
        body == IF signed THEN Tail(t) ELSE t
        ok == body # <<>> /\ \A i \in 1..Len(body) : IsDigit(body[i])
        mag == IF ok THEN DigitsToNat(body) ELSE 0
    IN  [ok |-> ok,
         value |-> IF signed /\ Head(t) = "-" THEN -mag ELSE mag]

max(a, b) == IF a >= b THEN a ELSE b
min(a, b) == IF a <= b THEN a ELSE b

\* mutant: the upper clip bound is the extent instead of extent - 1
ClipInt_OffByOne(h, hi) == max(0, min(h, 2 * (hi + 1))) \div 2

\* int(np.clip(h/2, 0, hi)): clip the float, then truncate
ClipInt(h, hi) == max(0, min(h, 2 * hi)) \div 2

\* int(float(value)) for a non-negative scale value in half units
IntFloat(h) == h \div 2

\* dim_index = {'sagittal': 0, 'coronal': 1, 'axial': 2}[plane], 1-based
dim_index(plane) ==
    CASE plane = "sagittal" -> 1
      [] plane = "coronal" -> 2
      [] plane = "axial" -> 3

\* numpy raises IndexError for an index outside [-n, n-1]
IndexError(d, c) ==
    \E p \in Planes : c[p] < -d[dim_index(p)] \/ c[p] > d[dim_index(p)] - 1

\* a valid (possibly negative) numpy index, as the position it selects
Wrap(i, n) == IF i < 0 THEN i + n ELSE i

(***************************************************************************)
(* Initial state: after BrainViewer.__init__                               *)
(***************************************************************************)
InitState ==
    [data |-> NoData,
     data_range |-> NoData,
     filename |-> None,
     slice_controls |-> [p \in Planes |-> 0],
     slice_entries |-> [p \in Planes |-> <<"0">>],
     scale_to |-> [p \in Planes |-> ScaleInitTo],
     brightness_var |-> 0,
     contrast_var |-> 0,
     mouse_pressed |-> FALSE,
     mouse_over_axes |-> None,
     image_plots |-> [v \in Views |-> NoData],
     clim |-> NoData,
     crosshair_lines |-> [v \in Views |-> NoData],
     temp_lines |-> [v \in Views |-> NoData]]

Init ==
    /\ data = InitState.data
    /\ data_range = InitState.data_range
    /\ filename = InitState.filename
    /\ slice_controls = InitState.slice_controls
    /\ slice_entries = InitState.slice_entries
    /\ scale_to = InitState.scale_to
    /\ brightness_var = InitState.brightness_var
    /\ contrast_var = InitState.contrast_var
    /\ mouse_pressed = InitState.mouse_pressed
    /\ mouse_over_axes = InitState.mouse_over_axes
    /\ image_plots = InitState.image_plots
    /\ clim = InitState.clim
    /\ crosshair_lines = InitState.crosshair_lines
    /\ temp_lines = InitState.temp_lines

\* the object's current state
self ==
    [data |-> data, data_range |-> data_range, filename |-> filename,
     slice_controls |-> slice_controls, slice_entries |-> slice_entries,
     scale_to |-> scale_to, brightness_var |-> brightness_var,
     contrast_var |-> contrast_var, mouse_pressed |-> mouse_pressed,
     mouse_over_axes |-> mouse_over_axes, image_plots |-> image_plots,
     clim |-> clim, crosshair_lines |-> crosshair_lines,
     temp_lines |-> temp_lines]

\* a handler leaves the object in state t
Becomes(t) ==
    /\ data' = t.data
    /\ data_range' = t.data_range
    /\ filename' = t.filename
    /\ slice_controls' = t.slice_controls
    /\ slice_entries' = t.slice_entries
    /\ scale_to' = t.scale_to
    /\ brightness_var' = t.brightness_var
    /\ contrast_var' = t.contrast_var
    /\ mouse_pressed' = t.mouse_pressed
    /\ mouse_over_axes' = t.mouse_over_axes
    /\ image_plots' = t.image_plots
    /\ clim' = t.clim
    /\ crosshair_lines' = t.crosshair_lines
    /\ temp_lines' = t.temp_lines

(***************************************************************************)
(* Slices and crosshairs                                                   *)
(***************************************************************************)
\* the slice each view displays: axial data[:, :, z], sagittal data[x, :, :],
\* coronal data[:, y, :]; a view shows the plane named like it
SlicesAt(d, c) == [v \in Views |-> <<Wrap(c[v], d[dim_index(v)])>>]

\* committed crosshair <<vline, hline>> of each view for the slider values c
CrosshairsAt(d, c) ==
    LET x == c["sagittal"]
        y == c["coronal"]
        z == c["axial"]
    IN  [v \in Views |->
            CASE v = "axial" -> <<x, d[2] - y - 1>>
              [] v = "sagittal" -> <<d[2] - y - 1, z>>
              [] v = "coronal" -> <<x, z>>]

\* mutant: the contrast multiplier is applied to the intensity span
get_slice_display_params_SpanContrast(s) ==
    LET data_min == s.data_range[1]
        data_max == s.data_range[2]
        data_range_ == data_max - data_min
    IN  <<100 * data_min + s.brightness_var * data_range_,
          100 * data_min + data_range_ * (s.contrast_var + 100)>>

\* <<vmin, vmax>> in hundredths: brightness = brightness_var / 100,
\* contrast = (contrast_var + 100) / 100, vmin = data_min + brightness *
\* (data_max - data_min), vmax = data_max * contrast
get_slice_display_params(s) ==
    LET data_min == s.data_range[1]
        data_max == s.data_range[2]
        data_range_ == data_max - data_min
    IN  <<100 * data_min + s.brightness_var * data_range_,
          data_max * (s.contrast_var + 100)>>

\* every image gets the slice at its slider value and the display range
update_image_data(s) ==
    IF s.data = NoData THEN s
    ELSE [s EXCEPT !.image_plots = SlicesAt(s.data, s.slice_controls),
                   !.clim = get_slice_display_params(s)]

update_crosshairs(s) ==
    IF s.data = NoData THEN s
    ELSE [s EXCEPT !.crosshair_lines = CrosshairsAt(s.data, s.slice_controls)]

\* self.update_image_data(); self.update_crosshairs(): when building the
\* slices raises IndexError nothing is drawn, the handler ends there and
\* update_crosshairs does not run
Refresh(s) ==
    IF s.data # NoData /\ IndexError(s.data, s.slice_controls) THEN s
    ELSE update_crosshairs(update_image_data(s))

(***************************************************************************)
(* Loading                                                                 *)
(***************************************************************************)
\* mutant: the middle is taken of the extent, not of the largest index
MiddleVal_OfExtent(d, plane) == d[dim_index(plane)] \div 2

\* the middle of the slider range of `plane`
MiddleVal(d, plane) == (d[dim_index(plane)] - 1) \div 2

initialize_slice_positions(s) ==
    IF s.data = NoData THEN s
    ELSE [s EXCEPT
            !.slice_controls = [p \in Planes |-> MiddleVal(s.data, p)],
            !.slice_entries = [p \in Planes |-> str(MiddleVal(s.data, p))],
            !.scale_to = [p \in Planes |-> s.data[dim_index(p)] - 1]]

\* the axes are cleared; images, committed crosshairs and (hidden) hover
\* lines are created anew, then update_crosshairs places the crosshairs
initialize_plots(s) ==
    IF s.data = NoData THEN s
    ELSE update_crosshairs(
            [s EXCEPT
                !.image_plots = SlicesAt(s.data, s.slice_controls),
                !.clim = get_slice_display_params(s),
                !.crosshair_lines = [v \in Views |-> <<0, 0>>],
                !.temp_lines = [v \in Views |-> <<FALSE, 0, 0>>]])

\* the user picks the file `name`; nib.load / get_fdata either return a
\* volume of shape d with intensities spanning r or (d = NoData) raise,
\* which the except clause reports
load_nifti(s, name, d, r) ==
    LET named == [s EXCEPT !.filename = name]
    IN  IF d = NoData THEN named
        ELSE initialize_plots(
                initialize_slice_positions(
                    [named EXCEPT !.data = d, !.data_range = r]))

(***************************************************************************)
(* Sliders and entries                                                     *)
(***************************************************************************)
\* mutant: the entry is written from the value the slider had before
on_slider_change_StaleEntry(s, h, plane) ==
    Refresh([s EXCEPT
                !.slice_controls[plane] = IntFloat(h),
                !.slice_entries[plane] = str(s.slice_controls[plane])])

\* the scale of `plane` is moved to h/2: Tk stores the value in the IntVar,
\* then calls on_slider_change(value, plane)
on_slider_change(s, h, plane) ==
    Refresh([s EXCEPT
                !.slice_controls[plane] = IntFloat(h),
                !.slice_entries[plane] = str(IntFloat(h))])

\* mutant: the value is only clamped from above
ClampEntry_NoFloor(value, d, plane) ==
    IF d # NoData THEN min(value, d[dim_index(plane)] - 1) ELSE value

\* value = max(0, min(value, max_val)) when a volume is loaded
ClampEntry(value, d, plane) ==
    IF d # NoData THEN max(0, min(value, d[dim_index(plane)] - 1)) ELSE value

\* mutant: a ValueError leaves the entry as it was typed
on_entry_change_NoRevert(s, plane, text) ==
    LET parsed == int(text)
        value == ClampEntry(parsed.value, s.data, plane)
    IN  IF parsed.ok
        THEN Refresh([s EXCEPT
                        !.slice_controls[plane] = value,
                        !.slice_entries[plane] = str(value)])
        ELSE [s EXCEPT !.slice_entries[plane] = text]

\* <Return> / <FocusOut> on the entry of `plane`, which holds `text`
on_entry_change(s, plane, text) ==
    LET parsed == int(text)
        value == ClampEntry(parsed.value, s.data, plane)
    IN  IF parsed.ok
        THEN Refresh([s EXCEPT
                        !.slice_controls[plane] = value,
                        !.slice_entries[plane] = str(value)])
        ELSE [s EXCEPT !.slice_entries[plane] = str(s.slice_controls[plane])]

\* mutant: a change of brightness or contrast replots from scratch, slider
\* positions included
update_display_Reinitialises(s, which, level) ==
    initialize_plots(initialize_slice_positions(
        IF which = "brightness"
        THEN [s EXCEPT !.brightness_var = level]
        ELSE [s EXCEPT !.contrast_var = level]))

\* the brightness (which = "brightness") or the contrast scale is moved to
\* `level`: Tk stores it in the DoubleVar, then calls update_display
update_display(s, which, level) ==
    Refresh(IF which = "brightness"
            THEN [s EXCEPT !.brightness_var = level]
            ELSE [s EXCEPT !.contrast_var = level])

(***************************************************************************)
(* Mouse                                                                   *)
(***************************************************************************)
update_cursor_position(s, inaxes, xdata, ydata) ==
    IF inaxes = None \/ s.data = NoData THEN s
    ELSE
        LET d == s.data
            x == ClipInt(xdata, d[1] - 1)
            y == ClipInt(ydata, d[2] - 1)
            coronal_y == d[2] - y - 1
            coronal_x == d[2] - x - 1
        IN  Refresh(
              CASE inaxes = "axial" ->
                     [s EXCEPT !.slice_controls["sagittal"] = x,
                               !.slice_controls["coronal"] = coronal_y,
                               !.slice_entries["sagittal"] = str(x),
                               !.slice_entries["coronal"] = str(coronal_y)]
                [] inaxes = "sagittal" ->
                     [s EXCEPT !.slice_controls["coronal"] = coronal_x,
                               !.slice_controls["axial"] = y,
                               !.slice_entries["coronal"] = str(coronal_x),
                               !.slice_entries["axial"] = str(y)]
                [] inaxes = "coronal" ->
                     [s EXCEPT !.slice_controls["sagittal"] = x,
                               !.slice_controls["axial"] = y,
                               !.slice_entries["sagittal"] = str(x),
                               !.slice_entries["axial"] = str(y)])

\* every hover line is hidden, then the lines of the hovered view are shown
\* at the raw event position
update_temp_crosshairs(s, inaxes, xdata, ydata) ==
    IF inaxes = None \/ s.data = NoData THEN s
    ELSE [s EXCEPT !.temp_lines = [v \in Views |->
            IF v = inaxes THEN <<TRUE, xdata, ydata>>
            ELSE <<FALSE, s.temp_lines[v][2], s.temp_lines[v][3]>>]]

on_axes_enter(s, inaxes) == [s EXCEPT !.mouse_over_axes = inaxes]

on_axes_leave(s) == Refresh([s EXCEPT !.mouse_over_axes = None])

\* mutant: a motion moves the cursor whether or not the button is held
on_motion_NoPressCheck(s, inaxes, xdata, ydata) ==
    IF inaxes # None /\ s.data # NoData
    THEN update_cursor_position(s, inaxes, xdata, ydata)
    ELSE s

on_motion(s, inaxes, xdata, ydata) ==
    IF inaxes # None /\ s.data # NoData
    THEN IF s.mouse_pressed
         THEN update_cursor_position(s, inaxes, xdata, ydata)
         ELSE update_temp_crosshairs(s, inaxes, xdata, ydata)
    ELSE s

\* mutant: a press inside a view starts tracking with no volume loaded too
on_click_NoVolumeCheck(s, inaxes, xdata, ydata) ==
    IF inaxes # None
    THEN update_cursor_position([s EXCEPT !.mouse_pressed = TRUE],
                                inaxes, xdata, ydata)
    ELSE s

\* mutant: a press also resets the slice of the view that was pressed
on_click_ResetsOwnSlice(s, inaxes, xdata, ydata) ==
    IF inaxes # None /\ s.data # NoData
    THEN LET t == update_cursor_position([s EXCEPT !.mouse_pressed = TRUE],
                                         inaxes, xdata, ydata)
         IN  [t EXCEPT !.slice_controls[inaxes] = 0,
                       !.slice_entries[inaxes] = <<"0">>]
    ELSE s

on_click(s, inaxes, xdata, ydata) ==
    IF inaxes # None /\ s.data # NoData
    THEN update_cursor_position([s EXCEPT !.mouse_pressed = TRUE],
                                inaxes, xdata, ydata)
    ELSE s

on_release(s) == [s EXCEPT !.mouse_pressed = FALSE]

(***************************************************************************)
(* The events the user and the toolkit deliver                             *)
(***************************************************************************)
\* texts a user leaves in an entry before committing it
EntryTexts ==
    {str(v) : v \in (-1)..(MaxDim + 1)}
        \cup {<<"a", "b", "c">>, <<" ", "1", " ">>, <<"1", ".", "5">>}

\* the file dialog returns a name (a cancelled dialog changes nothing)
Load ==
    \E name \in FileNames, d \in Shapes \cup {NoData}, r \in Intensities :
        Becomes(load_nifti(self, name, d, r))

\* a scale only hands out values of its range [from_, to]
Slider ==
    \E plane \in Planes, h \in SliderCoords :
        /\ h <= 2 * scale_to[plane]
        /\ Becomes(on_slider_change(self, h, plane))

Entry ==
    \E plane \in Planes, text \in EntryTexts :
        Becomes(on_entry_change(self, plane, text))

Display ==
    \/ \E level \in BrightnessLevels :
          Becomes(update_display(self, "brightness", level))
    \/ \E level \in ContrastLevels :
          Becomes(update_display(self, "contrast", level))

\* matplotlib delivers axes_leave_event / axes_enter_event before the first
\* location event whose inaxes differs from the previous one, so a press or
\* a motion carries inaxes = the axes last entered (None outside all axes).
\* The navigation toolbar lets the user pan and zoom a view, so an event
\* position inside the axes need not lie inside the image extent.
Enter ==
    \E v \in Views : mouse_over_axes = None /\ Becomes(on_axes_enter(self, v))

Leave == mouse_over_axes # None /\ Becomes(on_axes_leave(self))

Motion ==
    \E xdata \in EventCoords, ydata \in EventCoords :
        /\ mouse_pressed \/ (xdata \in HoverCoords /\ ydata \in HoverCoords)
        /\ Becomes(on_motion(self, mouse_over_axes, xdata, ydata))

Click ==
    \E xdata \in EventCoords, ydata \in EventCoords :
        Becomes(on_click(self, mouse_over_axes, xdata, ydata))

Release == Becomes(on_release(self))

Next ==
    \/ Load
    \/ Slider
    \/ Entry
    \/ Display
    \/ Enter
    \/ Leave
    \/ Motion
    \/ Click
    \/ Release

Spec == Init /\ [][Next]_vars

(***************************************************************************)
(* The viewer with the brightness and contrast scales in use: volumes of   *)
(* one shape with different intensity spans, scales moved over their       *)
(* range, slices chosen with the sliders and the mouse                     *)
(***************************************************************************)
\* positions the brightness and the contrast scale (from 100 to -100) are
\* moved to
DisplayLevels == {-100, 0, 50}

DisplayShapes == {<<1, 2, 1>>}

\* <<np.min(data), np.max(data)>>: the documented span, one with a
\* negative minimum
DisplayIntensities == {<<0, 200>>, <<-4, 4>>}

LoadRanged ==
    \E name \in FileNames, d \in DisplayShapes \cup {NoData},
       r \in DisplayIntensities :
        Becomes(load_nifti(self, name, d, r))

DisplayRanged ==
    \/ \E level \in DisplayLevels :
          Becomes(update_display(self, "brightness", level))
    \/ \E level \in DisplayLevels :
          Becomes(update_display(self, "contrast", level))

NextDisplay ==
    \/ LoadRanged
    \/ DisplayRanged
    \/ Slider
    \/ Enter
    \/ Leave
    \/ Motion
    \/ Click
    \/ Release

SpecDisplay == Init /\ [][NextDisplay]_vars

(***************************************************************************)
(* Vocabulary of the claims                                                *)
(***************************************************************************)
Loaded == data # NoData

\* the cursor (x, y, z) = (sagittal, coronal, axial slider values)
CursorX == slice_controls["sagittal"]
CursorY == slice_controls["coronal"]
CursorZ == slice_controls["axial"]

\* every cursor component lies in [0, dim - 1]
CursorInRange ==
    /\ 0 <= CursorX /\ CursorX <= data[1] - 1
    /\ 0 <= CursorY /\ CursorY <= data[2] - 1
    /\ 0 <= CursorZ /\ CursorZ <= data[3] - 1

\* the extent of the volume along the axis of a plane: sagittal -> Nx,
\* coronal -> Ny, axial -> Nz
AxisDim(plane) ==
    IF plane = "sagittal" THEN data[1]
    ELSE IF plane = "coronal" THEN data[2]
    ELSE data[3]

\* the two cursor axes a view addresses; the third one is the plane the
\* view is named after
ViewAxes(v) == Planes \ {v}

\* integer pixels among the event positions (the half units 2 * p)
Pixels == {p \in (-1)..MaxDim : 2 * p \in EventCoords}

\* an integer clamped to [0, n - 1]
Clamped(p, n) == IF p < 0 THEN 0 ELSE IF p > n - 1 THEN n - 1 ELSE p

\* the state after loading a volume of shape (10, 20, 30), the volume of
\* the documented scenarios
Scenario == load_nifti(InitState, "volume.nii", <<10, 20, 30>>, <<0, 200>>)

(***************************************************************************)
(* C1. Cursor range invariant: whenever a volume of shape (Nx, Ny, Nz) is  *)
(* loaded, 0 <= x <= Nx-1, 0 <= y <= Ny-1 and 0 <= z <= Nz-1.              *)
(***************************************************************************)
C1_CursorRange == Loaded => CursorInRange

(***************************************************************************)
(* C2. Click/crosshair inverse law: with an in-range cursor, a press on    *)
(* view V exactly at V's committed crosshair (vline, hline) leaves the two *)
(* cursor axes V addresses at their values.                                *)
(***************************************************************************)
C2_ClickCrosshairInverse ==
    \A v \in Views :
        (Loaded /\ CursorInRange /\ mouse_over_axes = v) =>
            LET px == crosshair_lines[v][1]
                py == crosshair_lines[v][2]
                t == on_click(self, v, 2 * px, 2 * py)
            IN  \A p \in ViewAxes(v) : t.slice_controls[p] = slice_controls[p]

(***************************************************************************)
(* C3. No-divergence invariant: with a volume loaded, each entry text      *)
(* denotes its slider's value, the committed crosshairs are the image of   *)
(* the cursor (axial: x, Ny-y-1; sagittal: Ny-y-1, z; coronal: x, z) and   *)
(* the displayed slices are those at the cursor (axial z, sagittal x,      *)
(* coronal y).                                                             *)
(***************************************************************************)
C3_NoDivergence ==
    Loaded =>
        /\ \A p \in Planes :
              int(slice_entries[p]) = [ok |-> TRUE, value |-> slice_controls[p]]
        /\ crosshair_lines["axial"] = <<CursorX, data[2] - CursorY - 1>>
        /\ crosshair_lines["sagittal"] = <<data[2] - CursorY - 1, CursorZ>>
        /\ crosshair_lines["coronal"] = <<CursorX, CursorZ>>
        /\ image_plots["axial"] = <<CursorZ>>
        /\ image_plots["sagittal"] = <<CursorX>>
        /\ image_plots["coronal"] = <<CursorY>>

(***************************************************************************)
(* C4. Axial click rule: a press on the axial view at the integer pixel    *)
(* (px, py), first clamped to [0, Nx-1] x [0, Ny-1], sets x to px and y to *)
(* Ny - py - 1; with shape (10, 20, 30) the pixel (3, 5) gives x = 3,      *)
(* y = 14.                                                                 *)
(***************************************************************************)
C4_AxialClick ==
    /\ (Loaded /\ mouse_over_axes = "axial") =>
          \A px \in Pixels, py \in Pixels :
              LET t == on_click(self, "axial", 2 * px, 2 * py)
              IN  /\ t.slice_controls["sagittal"] = Clamped(px, data[1])
                  /\ t.slice_controls["coronal"] =
                        data[2] - Clamped(py, data[2]) - 1
    /\ LET t == on_click(Scenario, "axial", 2 * 3, 2 * 5)
       IN  /\ t.slice_controls["sagittal"] = 3
           /\ t.slice_controls["coronal"] = 14
           /\ t.slice_controls["axial"] = Scenario.slice_controls["axial"]

\* the state a press at pixel (1, 2) of the axial view of a (2, 3, 1)
\* volume leaves (pressing there again gives this very state): the button
\* is held, x = 1 and y = 3 - 2 - 1 = 0
C4_Witness ==
    /\ data = <<2, 3, 1>>
    /\ mouse_over_axes = "axial"
    /\ on_click(self, "axial", 2 * 1, 2 * 2) = self
    /\ mouse_pressed
    /\ CursorX = 1 /\ CursorY = 0
    /\ crosshair_lines["axial"] = <<1, 2>>

(***************************************************************************)
(* C5. Sagittal click rule: a press on the sagittal view at an integer     *)
(* pixel (px, py) of its displayed extent (0 <= px <= Ny-1,                *)
(* 0 <= py <= Nz-1) sets y to Ny - px - 1 and z to py, for every shape.    *)
(***************************************************************************)
C5_SagittalClick ==
    (Loaded /\ mouse_over_axes = "sagittal") =>
        \A px \in 0..(data[2] - 1), py \in 0..(data[3] - 1) :
            LET t == on_click(self, "sagittal", 2 * px, 2 * py)
            IN  /\ t.slice_controls["coronal"] = data[2] - px - 1
                /\ t.slice_controls["axial"] = py

(***************************************************************************)
(* C6. Coronal click rule: a press on the coronal view at an integer pixel *)
(* (px, py) of its displayed extent (0 <= px <= Nx-1, 0 <= py <= Nz-1)     *)
(* sets x to px and z to py, for every shape.                              *)
(***************************************************************************)
C6_CoronalClick ==
    (Loaded /\ mouse_over_axes = "coronal") =>
        \A px \in 0..(data[1] - 1), py \in 0..(data[3] - 1) :
            LET t == on_click(self, "coronal", 2 * px, 2 * py)
            IN  /\ t.slice_controls["sagittal"] = px
                /\ t.slice_controls["axial"] = py

(***************************************************************************)
(* C7. Click frame condition: a press or a drag motion on a view leaves    *)
(* the slider value and the entry text of the third axis (z for axial, x   *)
(* for sagittal, y for coronal: the plane the view is named after) and the *)
(* brightness and contrast as they were.                                   *)
(***************************************************************************)
ThirdAxisKept(v, t) ==
    /\ t.slice_controls[v] = slice_controls[v]
    /\ t.slice_entries[v] = slice_entries[v]
    /\ t.brightness_var = brightness_var
    /\ t.contrast_var = contrast_var

C7_ClickFrame ==
    \A v \in Views :
        (Loaded /\ mouse_over_axes = v) =>
            \A xdata \in EventCoords, ydata \in EventCoords :
                /\ ThirdAxisKept(v, on_click(self, v, xdata, ydata))
                /\ mouse_pressed =>
                      ThirdAxisKept(v, on_motion(self, v, xdata, ydata))

\* the state a press at pixel (0, 0) of the coronal view of a (1, 2, 3)
\* volume leaves, with y, the axis the coronal view does not address, at
\* 0 and not at the 1 a load puts it at
C7_Witness ==
    /\ data = <<1, 2, 3>>
    /\ mouse_over_axes = "coronal"
    /\ on_click(self, "coronal", 2 * 0, 2 * 0) = self
    /\ mouse_pressed
    /\ CursorY = 0 /\ CursorZ = 0
    /\ slice_entries["coronal"] = <<"0">>

(***************************************************************************)
(* C8. Clamping on set: with a volume loaded, committing the integer v     *)
(* (negative, in range or above range) in the entry of axis A sets the     *)
(* cursor component of A to max(0, min(v, dim[A]-1)), dim = (Nx, Ny, Nz)   *)
(* for (sagittal, coronal, axial), and the entry shows that value.         *)
(***************************************************************************)
C8_EntryClamp ==
    Loaded =>
        \A A \in Planes, v \in (-1)..(MaxDim + 1) :
            LET t == on_entry_change(self, A, str(v))
                c == Clamped(v, AxisDim(A))
            IN  /\ t.slice_controls[A] = c
                /\ int(t.slice_entries[A]) = [ok |-> TRUE, value |-> c]
                /\ Len(t.slice_entries[A]) = 1

\* the state a commit of "4" in the axial entry of a (1, 2, 3) volume
\* leaves (committing it again gives this very state): z = Nz - 1 = 2, and
\* likewise a commit of "-1" in the coronal entry: y = 0
C8_Witness ==
    /\ data = <<1, 2, 3>>
    /\ on_entry_change(self, "axial", <<"4">>) = self
    /\ on_entry_change(self, "coronal", <<"-", "1">>) = self
    /\ CursorZ = 2 /\ slice_entries["axial"] = <<"2">>
    /\ CursorY = 0 /\ slice_entries["coronal"] = <<"0">>

(***************************************************************************)
(* C9. Parse-failure recovery: committing an entry whose text is not an    *)
(* integer changes nothing but that entry's text, which becomes the        *)
(* decimal form of the axis's current slider value ("abc" with prior value *)
(* 7 reverts to "7").                                                      *)
(***************************************************************************)
NonIntegerTexts == {<<"a", "b", "c">>, <<"1", ".", "5">>}

C9_ParseFailure ==
    /\ \A A \in Planes, text \in NonIntegerTexts :
          LET t == on_entry_change(self, A, text)
          IN  /\ t.slice_controls = slice_controls
              /\ t = [self EXCEPT !.slice_entries[A] = t.slice_entries[A]]
              /\ int(t.slice_entries[A]) =
                    [ok |-> TRUE, value |-> slice_controls[A]]
    /\ LET s7 == on_slider_change(Scenario, 2 * 7, "coronal")
           t == on_entry_change(s7, "coronal", <<"a", "b", "c">>)
       IN  /\ s7.slice_controls["coronal"] = 7
           /\ t.slice_entries["coronal"] = <<"7">>
           /\ t.slice_controls = s7.slice_controls

\* the state a commit of "abc" in the coronal entry of a (1, 2, 3) volume
\* leaves when the coronal slice is 1 (not where a load puts it): the
\* entry shows "1"
C9_Witness ==
    /\ data = <<1, 2, 3>>
    /\ CursorY = 1
    /\ on_entry_change(self, "coronal", <<"a", "b", "c">>) = self
    /\ slice_entries["coronal"] = <<"1">>

(***************************************************************************)
(* C10. Drag tracking: while the button is held after a press inside a     *)
(* view, a motion inside a view moves the cursor as a press at that        *)
(* position would; a release changes no cursor component and ends the      *)
(* tracking; with the button up no motion changes the cursor; tracking     *)
(* starts only with a press inside a view and ends only with a release.    *)
(***************************************************************************)
C10_WhileHeld ==
    (Loaded /\ mouse_pressed /\ mouse_over_axes \in Views) =>
        \A xdata \in EventCoords, ydata \in EventCoords :
            LET t == on_motion(self, mouse_over_axes, xdata, ydata)
                c == on_click(self, mouse_over_axes, xdata, ydata)
            IN  /\ t.slice_controls = c.slice_controls
                /\ t.slice_entries = c.slice_entries
                /\ t.mouse_pressed
                /\ \A px \in Pixels, py \in Pixels :
                      (mouse_over_axes = "axial" /\ xdata = 2 * px /\ ydata = 2 * py)
                          => /\ t.slice_controls["sagittal"] = Clamped(px, data[1])
                             /\ t.slice_controls["coronal"] =
                                   data[2] - Clamped(py, data[2]) - 1

C10_WhenUp ==
    ~mouse_pressed =>
        \A xdata \in EventCoords, ydata \in EventCoords :
            LET t == on_motion(self, mouse_over_axes, xdata, ydata)
            IN  /\ t.slice_controls = slice_controls
                /\ t.slice_entries = slice_entries
                /\ ~t.mouse_pressed

C10_OnRelease ==
    LET t == on_release(self)
    IN  /\ t.slice_controls = slice_controls
        /\ ~t.mouse_pressed

C10_StartAndEnd ==
    (mouse_pressed' # mouse_pressed) =>
        IF mouse_pressed'
        THEN /\ Loaded
             /\ mouse_over_axes \in Views
             /\ \E xdata \in EventCoords, ydata \in EventCoords :
                   Becomes(on_click(self, mouse_over_axes, xdata, ydata))
        ELSE Becomes(on_release(self))

Hidden(v) == temp_lines[v] = NoData \/ ~temp_lines[v][1]

(***************************************************************************)
(* C11. Hover is non-committing: a motion with no button held changes only *)
(* the hover overlay of the hovered view, which (with a volume loaded) is  *)
(* shown at the raw event position; the slider values, the entry texts,    *)
(* the committed crosshairs, mouse_pressed and every other view's overlay  *)
(* are as before.                                                          *)
(***************************************************************************)
C11_HoverNonCommitting ==
    ~mouse_pressed =>
        \A xdata \in EventCoords, ydata \in EventCoords :
            LET v == mouse_over_axes
                t == on_motion(self, v, xdata, ydata)
            IN  /\ t.slice_controls = slice_controls
                /\ t.slice_entries = slice_entries
                /\ t.crosshair_lines = crosshair_lines
                /\ t.mouse_pressed = mouse_pressed
                /\ \A w \in Views \ {v} : t.temp_lines[w] = temp_lines[w]
                /\ t = [self EXCEPT !.temp_lines = t.temp_lines]
                /\ (Loaded /\ v # None) =>
                        t.temp_lines[v] = <<TRUE, xdata, ydata>>

(***************************************************************************)
(* C12. Hover overlay is hidden on leave: in every reachable state in      *)
(* which the pointer is over no view, no view's hover overlay is visible.  *)
(***************************************************************************)
C12_HiddenOnLeave == mouse_over_axes = None => \A v \in Views : Hidden(v)

(***************************************************************************)
(* C13. Brightness/contrast frame condition: moving the brightness or the  *)
(* contrast scale leaves the slider values, the entry texts, the committed *)
(* crosshairs and the slices the views show as they were; only the display *)
(* range (and the scale's own variable) may differ.                        *)
(***************************************************************************)
C13_DisplayFrame ==
    \A which \in {"brightness", "contrast"}, level \in DisplayLevels :
        LET t == update_display(self, which, level)
        IN  /\ t.slice_controls = slice_controls
            /\ t.slice_entries = slice_entries
            /\ t.crosshair_lines = crosshair_lines
            /\ t.image_plots = image_plots
            /\ t = [self EXCEPT !.clim = t.clim,
                                !.brightness_var = t.brightness_var,
                                !.contrast_var = t.contrast_var]

\* the state a move of the brightness scale to 50 leaves (moving it there
\* again gives this very state): the display range of the (-4, 4) volume
\* is (0, 4), not the (-4, 4) of brightness 0, and the cursor is where the
\* slider or the mouse put it, not where a load puts it
C13_Witness ==
    /\ data = <<1, 2, 1>>
    /\ data_range = <<-4, 4>>
    /\ update_display(self, "brightness", 50) = self
    /\ brightness_var = 50 /\ contrast_var = 0
    /\ clim = <<0, 400>>
    /\ CursorY = 1
    /\ image_plots["coronal"] = <<1>>

(***************************************************************************)
(* C15. Display range formula: for brightness b and contrast c and a       *)
(* volume with intensities dataMin .. dataMax, the display range is        *)
(* vmin = dataMin + (b / 100) * (dataMax - dataMin) and                    *)
(* vmax = dataMax * (c + 100) / 100, neither clamped nor reordered; b = 0, *)
(* c = 0 gives (dataMin, dataMax); b = 50, c = 0 with (0, 200) gives       *)
(* (100, 200). It is the range the images have after every redraw.        *)
(* (Ranges are in hundredths.)                                             *)
(***************************************************************************)
C15_DisplayRange ==
    Loaded =>
        LET dataMin == data_range[1]
            dataMax == data_range[2]
            b == brightness_var
            c == contrast_var
            range == get_slice_display_params(self)
        IN  /\ range[1] = 100 * dataMin + b * (dataMax - dataMin)
            /\ range[2] = dataMax * (c + 100)
            /\ (b = 0 /\ c = 0) => range = <<100 * dataMin, 100 * dataMax>>
            /\ (b = 50 /\ c = 0 /\ data_range = <<0, 200>>) =>
                    range = <<100 * 100, 100 * 200>>
            /\ ~IndexError(data, slice_controls) =>
                    clim = <<100 * dataMin + b * (dataMax - dataMin),
                             dataMax * (c + 100)>>

\* the documented scenario: the state a move of the brightness scale to 50
\* leaves on a (0, 200) volume with contrast 0, where the images have the
\* range (100, 200)
C15_Witness ==
    /\ data_range = <<0, 200>>
    /\ brightness_var = 50 /\ contrast_var = 0
    /\ update_display(self, "brightness", 50) = self
    /\ clim = <<100 * 100, 100 * 200>>

(***************************************************************************)
(* C14. Load failure leaves state unchanged: when load_nifti fails, the    *)
(* stored volume, its shape, the filename, the cursor and the slider       *)
(* ranges are what they were before the load was attempted.                *)
(***************************************************************************)
C14_LoadFailure ==
    \A name \in FileNames :
        LET t == load_nifti(self, name, NoData, NoData)
        IN  /\ t.data = data
            /\ t.data_range = data_range
            /\ t.filename = filename
            /\ t.slice_controls = slice_controls
            /\ t.slice_entries = slice_entries
            /\ t.scale_to = scale_to

(***************************************************************************)
(* C16. Slider idempotence: issuing the same slider value on the same axis *)
(* twice in a row leaves, after the second event, exactly the state the    *)
(* first one left (cursor, entry texts, slices, committed crosshairs,      *)
(* display range).                                                         *)
(***************************************************************************)
C16_SliderIdempotent ==
    \A plane \in Planes, h \in SliderCoords :
        h <= 2 * scale_to[plane] =>
            LET once == on_slider_change(self, h, plane)
                twice == on_slider_change(once, h, plane)
            IN  /\ twice.slice_controls = once.slice_controls
                /\ twice.slice_entries = once.slice_entries
                /\ twice.image_plots = once.image_plots
                /\ twice.crosshair_lines = once.crosshair_lines
                /\ twice.clim = once.clim
                /\ twice = once

\* the state a move of the coronal slider of a (1, 2, 1) volume to 1.0
\* leaves (moving it there again gives this very state), with brightness
\* at 50: y = 1, not the 0 a load sets, shown by entry, slice and
\* crosshairs
C16_Witness ==
    /\ data = <<1, 2, 1>>
    /\ on_slider_change(self, 2 * 1, "coronal") = self
    /\ CursorY = 1
    /\ slice_entries["coronal"] = <<"1">>
    /\ image_plots["coronal"] = <<1>>
    /\ crosshair_lines["axial"] = <<0, 0>>
    /\ brightness_var = 50
    /\ clim = get_slice_display_params(self)

(***************************************************************************)
(* C17. Load resets the cursor: after a successful load of a volume of     *)
(* shape (Nx, Ny, Nz), whatever the state before, the cursor is            *)
(* ((Nx-1) div 2, (Ny-1) div 2, (Nz-1) div 2), each entry shows the same   *)
(* value and each slider's range is [0, dim - 1] for its own axis.         *)
(***************************************************************************)
C17_LoadResets ==
    \A name \in FileNames, d \in Shapes, r \in Intensities :
        LET t == load_nifti(self, name, d, r)
            Nx == d[1]
            Ny == d[2]
            Nz == d[3]
        IN  /\ t.data = d
            /\ t.slice_controls["sagittal"] = (Nx - 1) \div 2
            /\ t.slice_controls["coronal"] = (Ny - 1) \div 2
            /\ t.slice_controls["axial"] = (Nz - 1) \div 2
            /\ \A p \in Planes :
                  t.slice_entries[p] = str(t.slice_controls[p])
            /\ t.scale_to["sagittal"] = Nx - 1
            /\ t.scale_to["coronal"] = Ny - 1
            /\ t.scale_to["axial"] = Nz - 1

\* the state a load of a (2, 1, 3) volume leaves (loading it again gives
\* this very state): cursor (0, 0, 1), entries "0", "0", "1", slider
\* ranges up to 1, 0, 2 and no longer the initial 100
C17_Witness ==
    /\ data = <<2, 1, 3>>
    /\ load_nifti(self, "volume.nii", data, data_range) = self
    /\ CursorX = 0 /\ CursorY = 0 /\ CursorZ = 1
    /\ slice_entries["axial"] = <<"1">>
    /\ scale_to = [axial |-> 2, sagittal |-> 1, coronal |-> 0]

\* where an event can be located: inside one of the views or outside all
Locations == Views \cup {None}

\* t has the slider values, entry texts, mouse_pressed flag and hover
\* overlays of the current state
SameControlsAndOverlays(t) ==
    /\ t.slice_controls = slice_controls
    /\ t.slice_entries = slice_entries
    /\ t.mouse_pressed = mouse_pressed
    /\ t.temp_lines = temp_lines

(***************************************************************************)
(* C18. No volume, no mouse effect: while no volume is loaded, a press, a  *)
(* motion (drag or hover) and an axes-leave event leave the slider values, *)
(* the entry texts, the mouse_pressed flag (which is false) and the hover  *)
(* overlays as they were.                                                  *)
(***************************************************************************)
C18_NoVolumeNoMouse ==
    ~Loaded =>
        /\ ~mouse_pressed
        /\ SameControlsAndOverlays(on_axes_leave(self))
        /\ \A inaxes \in Locations, xdata \in EventCoords,
              ydata \in EventCoords :
              /\ SameControlsAndOverlays(on_click(self, inaxes, xdata, ydata))
              /\ SameControlsAndOverlays(on_motion(self, inaxes, xdata, ydata))
              /\ ~on_click(self, inaxes, xdata, ydata).mouse_pressed

\* no volume is loaded (a load has failed), the pointer is over the axial
\* view, the sliders and entries hold typed and dragged values, and the
\* state is what a press at pixel (1, 1) leaves
C18_Witness ==
    /\ ~Loaded
    /\ filename = "volume.nii"
    /\ mouse_over_axes = "axial"
    /\ on_click(self, "axial", 2 * 1, 2 * 1) = self
    /\ on_motion(self, "axial", 2 * 1, 2 * 1) = self
    /\ CursorX = 3 /\ CursorY = -1
    /\ slice_entries["coronal"] = <<"-", "1">>

(***************************************************************************)
(* C19. Tracking starts only inside a view: mouse_pressed is true only if  *)
(* the most recent press/release event was a press inside a view with a    *)
(* volume loaded. Event by event: after a release, after a press outside   *)
(* every view and after a press with no volume loaded mouse_pressed is     *)
(* false, and no other event sets it; after a press outside every view, a  *)
(* motion into a view moves only the hover overlay and leaves the cursor.  *)
(***************************************************************************)
C19_TrackingStartsInside ==
    /\ ~on_release(self).mouse_pressed
    /\ \A xdata \in EventCoords, ydata \in EventCoords :
          LET inaxes == mouse_over_axes
              pressed == on_click(self, inaxes, xdata, ydata)
              moved == on_motion(self, inaxes, xdata, ydata)
          IN  /\ (inaxes = None \/ ~Loaded) => ~pressed.mouse_pressed
              /\ moved.mouse_pressed = mouse_pressed
              /\ inaxes = None =>
                    \A v \in Views :
                        LET into == on_motion(on_axes_enter(pressed, v),
                                              v, xdata, ydata)
                        IN  /\ into.slice_controls = slice_controls
                            /\ into.slice_entries = slice_entries
                            /\ Loaded =>
                                  into.temp_lines[v] = <<TRUE, xdata, ydata>>
    /\ on_axes_leave(self).mouse_pressed = mouse_pressed
    /\ \A v \in Views : on_axes_enter(self, v).mouse_pressed = mouse_pressed

====
